---- MODULE Spec2Model ----
(***************************************************************************)
(* Model of the camera visualizer: the capture session of                  *)
(* camera_visualizer/gui.py (VideoPlayer and its GuiState) driving the     *)
(* capture devices of camera_interface/mock_interface.py (MockCamera) and  *)
(* camera_interface/tis_interface.py (TisCamera).                          *)
(*                                                                         *)
(* Every handler of VideoPlayer is one action.  The device methods are     *)
(* operators on a device record.  What the hardware and the user supply    *)
(* (frames, hardware faults, typed values) are inputs drawn with \E.       *)
(* Frame pixels are not modelled: a frame is its saturated-sample count,   *)
(* the only thing the code computes from it (MockCamera._counter, which    *)
(* only positions the bar drawn in the mock image, is left out).           *)
(***************************************************************************)
EXTENDS Integers, Sequences, FiniteSets, TLC

VARIABLES
    \* GuiState (gui.py:30-41)
    selected_camera, fps, frame_counter, recording, running, paused,
    estimating_exposure, exposure_tries, recording_format, filename_stem,
    \* whether the record_format box and filename_input are enabled
    record_format_enabled, filename_input_enabled,
    \* state.recording_format and state.filename_stem as they were when the
    \* running recording started, NoSettings while nothing is recorded
    startSettings,
    \* the last call of the device registry camera(camera_id): the identifier
    \* handed in, whether the call raised, and the kind of device it returned
    registry_call,
    \* VideoPlayer.camera: the current device object, and the scene in
    \* front of it
    camera, scene,
    \* VideoPlayer.exposure_input (its text, a number) and exposure_slider
    exposure_input, exposure_slider,
    \* which input widgets are enabled: fps_input and fps_slider (together),
    \* exposure_input, exposure_slider
    fps_enabled, exposure_input_enabled, exposure_slider_enabled,
    \* what the last handler did: whether it was update_frame, the device
    \* calls it made in order, whether it ended by an exception nobody
    \* caught, and whether the process was aborted by it
    ticked, calls, raised, crashed,
    \* whether the last get_frame delivered a frame, the last set_exposure
    \* call, the name of the last save
    got_frame, set_call, save_name,
    \* whether the last handler was toggle_exposure, and the value the last
    \* handler handed to update_fps, if it was update_fps
    est_request, fps_call,
    \* the width of the device's search interval after the last
    \* check_exposure of the running estimation, None before the first
    checkedWidth,
    \* counters of the running estimation and of the running recording
    estTicks, savesInRun

vars == <<selected_camera, fps, frame_counter, recording, running, paused,
          estimating_exposure, exposure_tries, camera, scene, exposure_input,
          exposure_slider, fps_enabled, exposure_input_enabled,
          exposure_slider_enabled, ticked, calls, raised, crashed, got_frame,
          set_call, save_name, est_request, fps_call, checkedWidth,
          estTicks, savesInRun, recording_format, filename_stem,
          record_format_enabled, filename_input_enabled, startSettings,
          registry_call>>

\* the recording settings and their widgets
recordingSettings == <<recording_format, filename_stem, record_format_enabled,
                       filename_input_enabled, startSettings>>

session == <<selected_camera, fps, frame_counter, recording, running, paused,
             estimating_exposure, exposure_tries>>

widgets == <<exposure_input, exposure_slider>>

enabled == <<fps_enabled, exposure_input_enabled, exposure_slider_enabled>>

----------------------------------------------------------------------------
(* Bounds of the model *)

\* recorded frames per recording run
MaxFrames == 1
\* ticks per estimation run
MaxEstTicks == 2
\* the same, in the specification of exposure searches (SpecSearch)
MaxSearchTicks == 3
\* the same, in the specification of long estimation runs (SpecEst)
MaxFramesEst == 0
EstTickBound == 51
\* recorded frames per recording run in the specification of long
\* recording runs (SpecRec)
MaxFramesRec == 5

----------------------------------------------------------------------------
(* Program constants *)

MAX_TRIES == 50
DEFAULT_FPS == 30
FPS_SLIDER_MIN == 1
FPS_SLIDER_MAX == 100
SLIDER_INIT_MIN == 1000
SLIDER_INIT_MAX == 1000000
MICROSECONDS == 1000000

MOCK_EXPOSURE == 10000
MOCK_EXPOSURE_MIN == 100
MOCK_EXPOSURE_MAX == 500000
MOCK_EXPOSURE_STEP == 20
MOCK_TARGET == 10000
MOCK_TARGET_LOW == 8000
MOCK_TARGET_HIGH == 12000

TIS_MIN_EXPOSURE_MS == 15
TIS_MAX_EXPOSURE_MS == 33333
TIS_EXPOSURE_INCREMENT == 10
TIS_DEFAULT_EXPOSURE_TIME_MS == 500
TIS_UNIT == 1000
TIS_WIDTH_TOL == 10

\* Python's None for a frame that was not delivered
None == -1

\* float("nan"), which float(fps_val) returns for the text "nan": every
\* comparison with it is false, and int() of it raises ValueError
NaN == -2

Min(a, b) == IF a < b THEN a ELSE b
Max(a, b) == IF a > b THEN a ELSE b
Abs(a) == IF a < 0 THEN -a ELSE a

CameraEnum == {"mock", "tis"}

\* SaveFormatEnum (gui.py:116): ENVI, the default, and any other member
SaveFormatEnum == {"ENVI", "OTHER"}
DEFAULT_FILENAME_STEM == "frame"
NoSettings == <<>>

----------------------------------------------------------------------------
(* The capture devices.  A device is a record: kind, status (its open()    *)
(* lifecycle), exposure (MockCamera._exposure in microseconds,             *)
(* TisCameraState.current_exposure), exposure_min and exposure_max (the    *)
(* search interval), bit_depth and subfolder.  The view mode (toggle_view) *)
(* only changes the displayed image, which is not modelled.                *)

TIS_MAX_SATURATION_16 == 100
TIS_MAX_SATURATION_8 == 8000
TIS_TOL_16 == 20
TIS_TOL_8 == 1000

\* MockCamera.__init__ / TisCamera.__init__ with TisCameraState's defaults
MockCamera ==
    [kind |-> "mock", status |-> "new", exposure |-> MOCK_EXPOSURE,
     exposure_min |-> MOCK_EXPOSURE_MIN, exposure_max |-> MOCK_EXPOSURE_MAX,
     bit_depth |-> 8, subfolder |-> "none"]

TisCamera ==
    [kind |-> "tis", status |-> "new", exposure |-> TIS_DEFAULT_EXPOSURE_TIME_MS,
     exposure_min |-> TIS_MIN_EXPOSURE_MS, exposure_max |-> TIS_MAX_EXPOSURE_MS,
     bit_depth |-> 16, subfolder |-> "none"]

\* XimeaCamera(): the class is imported from ximea_interface, which is not
\* part of the sources, so nothing but its kind is known
XimeaCamera ==
    [kind |-> "ximea", status |-> "new", exposure |-> None,
     exposure_min |-> None, exposure_max |-> None,
     bit_depth |-> None, subfolder |-> "none"]

\* no device: the registry raised
NoDevice ==
    [kind |-> "none", status |-> "none", exposure |-> None,
     exposure_min |-> None, exposure_max |-> None,
     bit_depth |-> None, subfolder |-> "none"]

\* A faulty registry: an unknown identifier gets the mock device
camera_lookup_fallback(camera_id) ==
    IF camera_id = "ximea" THEN [raises |-> FALSE, device |-> XimeaCamera]
    ELSE IF camera_id = "tis" THEN [raises |-> FALSE, device |-> TisCamera]
    ELSE [raises |-> FALSE, device |-> MockCamera]

\* camera(camera_id), the device registry (mock_interface.py:261-272):
\* [raises, device]; raises is TRUE when the call ends by ValueError
camera_lookup(camera_id) ==
    IF camera_id = "mock" THEN [raises |-> FALSE, device |-> MockCamera]
    ELSE IF camera_id = "ximea" THEN [raises |-> FALSE, device |-> XimeaCamera]
    ELSE IF camera_id = "tis" THEN [raises |-> FALSE, device |-> TisCamera]
    ELSE [raises |-> TRUE, device |-> NoDevice]

\* the registry's record of a call
RegistryCall(camera_id) ==
    [id |-> camera_id, raises |-> camera_lookup(camera_id).raises,
     kind |-> camera_lookup(camera_id).device.kind]

\* the device the registry returns
camera_of(camera_id) == camera_lookup(camera_id).device

\* What open() can do: MockCamera.open passes; TisCamera.open raises
\* IC4Exception from the grabber ("device_error") or IndexError from
\* devices()[0] when no device is attached ("no_device").
OpenOutcomes(kind) ==
    IF kind = "mock" THEN {"ok"} ELSE {"ok", "device_error", "no_device"}

\* Whether a hardware property write succeeds: only TisCamera writes one.
HwOutcomes(kind) == IF kind = "mock" THEN {"ok"} ELSE {"ok", "error"}

\* exception_type(): MockCamera returns Exception, which catches every
\* error; TisCamera returns IC4Exception, which catches "device_error" only.
Catches(kind, error) == kind = "mock" \/ error = "device_error"

exposure(c) ==
    IF c.kind = "mock" THEN c.exposure ELSE c.exposure * TIS_UNIT

exposure_range(c) ==
    IF c.kind = "mock"
    THEN <<MOCK_EXPOSURE_MIN, MOCK_EXPOSURE_MAX, MOCK_EXPOSURE_STEP>>
    ELSE <<TIS_MIN_EXPOSURE_MS * TIS_UNIT, TIS_MAX_EXPOSURE_MS * TIS_UNIT,
           TIS_EXPOSURE_INCREMENT * TIS_UNIT>>

\* set_exposure: [cam, ret, exc]; exc is TRUE when the call raises the
\* device's error (ret is then meaningless).
set_exposure(c, v, hw) ==
    IF c.kind = "mock"
    THEN IF v >= c.exposure_max \/ v <= c.exposure_min
         THEN [cam |-> c, ret |-> FALSE, exc |-> FALSE]
         ELSE [cam |-> [c EXCEPT !.exposure = v], ret |-> TRUE, exc |-> FALSE]
    ELSE IF hw = "error"
         THEN [cam |-> c, ret |-> FALSE, exc |-> TRUE]
         ELSE [cam |-> [c EXCEPT !.exposure = v], ret |-> TRUE, exc |-> FALSE]

init_exposure(c, max_exposure) ==
    IF c.kind = "mock"
    THEN [c EXCEPT !.exposure_max = Min(max_exposure, MOCK_EXPOSURE_MAX),
                   !.exposure_min = MOCK_EXPOSURE_MIN]
    ELSE [c EXCEPT !.exposure_max = Min(TIS_MAX_EXPOSURE_MS, max_exposure \div TIS_UNIT),
                   !.exposure_min = TIS_MIN_EXPOSURE_MS]

\* A faulty adjust_exposure: the upper bound instead of the midpoint
adjust_exposure_to_max(c, hw) ==
    IF c.kind = "mock"
    THEN [cam |-> [c EXCEPT !.exposure = c.exposure_max], exc |-> FALSE]
    ELSE LET r == set_exposure(c, c.exposure_max, hw) IN [cam |-> r.cam, exc |-> r.exc]

\* adjust_exposure: [cam, exc]
adjust_exposure(c, hw) ==
    LET mid == (c.exposure_max + c.exposure_min) \div 2 IN
    IF c.kind = "mock"
    THEN [cam |-> [c EXCEPT !.exposure = mid], exc |-> FALSE]
    ELSE LET r == set_exposure(c, mid, hw) IN [cam |-> r.cam, exc |-> r.exc]

\* TisCamera._find_exposure_for_saturation: frame is the number of
\* saturated samples of the frame, or None
find_exposure_for_saturation(c, frame) ==
    LET max_saturation == IF c.bit_depth = 16 THEN TIS_MAX_SATURATION_16
                                               ELSE TIS_MAX_SATURATION_8
        tol == IF c.bit_depth = 16 THEN TIS_TOL_16 ELSE TIS_TOL_8
        c1 == IF frame > max_saturation
              THEN [c EXCEPT !.exposure_max = c.exposure - 1]
              ELSE [c EXCEPT !.exposure_min = c.exposure + 1]
        tmp == c1.exposure_max - c1.exposure_min
        mid_exposure == (c1.exposure_max + c1.exposure_min) \div 2
    IN  IF frame = None
        THEN [cam |-> c, ret |-> FALSE, exc |-> TRUE]
        ELSE [cam |-> c1,
              ret |-> \/ Abs(frame - max_saturation) < tol
                      \/ Abs(tmp) < TIS_WIDTH_TOL
                      \/ Abs(c.exposure - mid_exposure) <= 2 * TIS_EXPOSURE_INCREMENT,
              exc |-> FALSE]

\* check_exposure: [cam, ret, exc]; exc is TRUE when the call raises
\* (TypeError, from comparing None with a number)
check_exposure(c, frame) ==
    IF c.kind = "mock"
    THEN LET c1 == IF c.exposure > MOCK_TARGET
                   THEN [c EXCEPT !.exposure_max = c.exposure - 1]
                   ELSE [c EXCEPT !.exposure_min = c.exposure + 1]
         IN  IF MOCK_TARGET_LOW <= exposure(c1) /\ exposure(c1) <= MOCK_TARGET_HIGH
             THEN [cam |-> [c1 EXCEPT !.exposure_max = MOCK_EXPOSURE_MAX,
                                      !.exposure_min = MOCK_EXPOSURE_MIN],
                   ret |-> TRUE, exc |-> FALSE]
             ELSE [cam |-> c1, ret |-> FALSE, exc |-> FALSE]
    ELSE find_exposure_for_saturation(c, frame)

\* get_frame (mock_interface.py:219-229, tis_interface.py:214-224).
\* MockCamera always returns its image.  TisCamera returns a frame of the
\* scene in front of it or raises IC4Exception; the scene is the exposure
\* (in the device's unit) above which the frame has too many saturated
\* samples, and at which it has about as many as allowed.
BRIGHT == 2 * TIS_MAX_SATURATION_16
NEAR == TIS_MAX_SATURATION_16 - (TIS_TOL_16 \div 2)
DARK == 0 * TIS_MAX_SATURATION_16
Scenes == {24, 40000}
saturated(c, sc) ==
    IF c.kind = "mock" THEN DARK
    ELSE IF c.exposure > sc THEN BRIGHT
    ELSE IF c.exposure = sc THEN NEAR
    ELSE DARK
\* get_frame: [frame]; delivered is whether the hardware delivers a frame
Delivery(kind) == IF kind = "mock" THEN {TRUE} ELSE {TRUE, FALSE}
get_frame(c, sc, delivered) == IF delivered THEN saturated(c, sc) ELSE None

toggle_bit_depth_of(c) ==
    IF c.kind = "mock"
    THEN [c EXCEPT !.bit_depth = IF c.bit_depth = 16 THEN 8 ELSE 16]
    ELSE c

\* toggle_view only changes how a frame is displayed
toggle_view_of(c) == c

set_save_subfolder(c, subfolder) == [c EXCEPT !.subfolder = subfolder]

\* save_folder(): MockCamera returns its root folder while no subfolder is
\* set, TisCamera returns state.save_path, which is None then.  The root is
\* made by __init__, the subfolder by set_save_subfolder.
save_folder(c) ==
    IF c.subfolder # "none" THEN "root/" \o c.subfolder
    ELSE IF c.kind = "mock" THEN "root"
    ELSE "None"

\* the bounds a device's search interval has when the device is made
AbsoluteBounds(c) ==
    IF c.kind = "mock" THEN <<MOCK_EXPOSURE_MIN, MOCK_EXPOSURE_MAX>>
    ELSE <<TIS_MIN_EXPOSURE_MS, TIS_MAX_EXPOSURE_MS>>

\* open() and close() on the device's lifecycle status; close() of a device
\* that is not open is recorded as "misuse"
open_of(c, outcome) ==
    [c EXCEPT !.status = IF outcome = "ok" THEN "open" ELSE "failed"]

close_of(c) ==
    [c EXCEPT !.status = IF c.status = "open" THEN "closed" ELSE "misuse"]

----------------------------------------------------------------------------
(* The exposure widgets.  w = [input, slider]: the number shown in         *)
(* exposure_input and the QSlider [value, minimum, maximum].  A QSlider    *)
(* keeps its value inside its range, and the valueChanged lambda           *)
(* (gui.py:98) copies every changed value into exposure_input.             *)

Clamp(v, lo, hi) == IF v < lo THEN lo ELSE IF v > hi THEN hi ELSE v

setText(w, v) == [w EXCEPT !.input = v]

setValue(w, v) ==
    LET nv == Clamp(v, w.slider.minimum, w.slider.maximum) IN
    IF nv = w.slider.value THEN w
    ELSE [input |-> nv, slider |-> [w.slider EXCEPT !.value = nv]]

setRange(w, lo, hi) ==
    LET top == Max(lo, hi)
        nv == Clamp(w.slider.value, lo, top)
        sl == [value |-> nv, minimum |-> lo, maximum |-> top]
    IN  IF nv = w.slider.value THEN [w EXCEPT !.slider = sl]
        ELSE [input |-> nv, slider |-> sl]

\* the widgets now
W == [input |-> exposure_input, slider |-> exposure_slider]

\* f"frame_{frame_counter:04d}" (gui.py:283)
Pad4(n) ==
    IF n < 10 THEN "000" \o ToString(n)
    ELSE IF n < 100 THEN "00" \o ToString(n)
    ELSE IF n < 1000 THEN "0" \o ToString(n)
    ELSE ToString(n)

\* Faulty variants of the operators below: names counted from 1, a tick that
\* ignores pausing, a save of every frame, a counter that stays, a start that
\* goes on after a failed open
FilenameOneBased(n) == "frame_" \o Pad4(n + 1)
TickActiveIgnoringPause == running
ExposureRequestRestarts == (~running) \/ paused
ShouldSaveAnyFrame(rec, frame) == frame # None
SavedCounterStuck(n) == n
StartAlways(outcome) == TRUE
SettingsAlwaysEnabled(rec) == TRUE
TriesKept(est1, tries1) == tries1
PauseNeverIgnored == FALSE

Filename(n) == "frame_" \o Pad4(n)

\* update_frame's guard (gui.py:265): the tick runs
TickActive == running /\ ~paused

\* gui.py:282: the tick saves the frame
ShouldSave(rec, frame) == rec /\ frame # None

\* gui.py:289
SavedCounter(n) == n + 1

\* toggle_running's try/except (gui.py:159-164): the start goes on
StartSucceeds(outcome) == outcome = "ok"

\* toggle_pausing's guard (gui.py:185-186): the request is dropped
PauseIgnored == ~running

\* update_frame (gui.py:293-296): exposure_tries after a check_exposure,
\* tries1 being the incremented count and est1 whether the search goes on
TriesAfter(est1, tries1) == IF est1 THEN tries1 ELSE 0

\* toggle_recording (gui.py:206-207, 214-215): record_format and
\* filename_input are enabled while nothing is recorded
SettingsEnabled(rec) == ~rec

\* update_fps (gui.py:314-318): the value stored for an accepted number
FpsAccepted(fps_val) ==
    IF fps_val = NaN THEN NaN
    ELSE IF fps_val < FPS_SLIDER_MIN THEN FPS_SLIDER_MIN
    ELSE IF fps_val > FPS_SLIDER_MAX THEN FPS_SLIDER_MAX
    ELSE fps_val

\* toggle_exposure's guard (gui.py:220-221): the request is dropped
ExposureRequestIgnored == (~running) \/ paused \/ estimating_exposure

\* update_exposure (gui.py:333-349) on the session as it is when called:
\* run and pau are state.running and state.paused at the call, val the
\* value handed in, parses whether int(val) succeeds.
\* [cam, w, calls, set]: set is the set_exposure call made, if any.
NoSet == [made |-> FALSE, arg |-> 0, ret |-> FALSE, exc |-> FALSE, before |-> 0]

\* no update_fps call; otherwise arg is the number handed in (NaN included)
\* and parses whether float() accepts the text
NoFps == [made |-> FALSE, arg |-> 0, parses |-> FALSE]

update_exposure_result(run, pau, c, w, val, parses, hw) ==
    IF (~run) \/ pau
    THEN [cam |-> c, w |-> w, calls |-> <<>>, set |-> NoSet]
    ELSE IF ~parses
    THEN LET e == exposure(c) IN
         [cam |-> c, w |-> setValue(setText(w, e), e), calls |-> <<>>, set |-> NoSet]
    ELSE LET v1 == IF val > w.slider.maximum THEN w.slider.maximum ELSE val
             v2 == IF v1 < w.slider.minimum THEN w.slider.minimum ELSE v1
             v3 == v2 - (v2 % exposure_range(c)[3])
             r == set_exposure(c, v3, hw)
             st == [made |-> TRUE, arg |-> v3, ret |-> r.ret, exc |-> r.exc,
                    before |-> exposure(c)]
         IN  IF r.exc
             THEN LET e == exposure(r.cam) IN
                  [cam |-> r.cam, w |-> setValue(setText(w, e), e),
                   calls |-> <<"set_exposure">>, set |-> st]
             ELSE [cam |-> r.cam, w |-> setValue(setText(w, v3), v3),
                   calls |-> <<"set_exposure">>, set |-> st]

\* setup_exposure_slider (gui.py:351-358), called by toggle_running before
\* state.running is set: [cam, w, calls, set]
setup_exposure_slider(run, pau, c, w, f, exposure_val, hw) ==
    LET cam_range == exposure_range(c)
        max_exposure == Min(MICROSECONDS \div f, cam_range[2])
        w1 == setRange(setValue(w, exposure_val), cam_range[1], max_exposure)
    IN  IF exposure_val > max_exposure \/ exposure_val < cam_range[1]
        THEN update_exposure_result(run, pau, c, w1, max_exposure, TRUE, hw)
        ELSE [cam |-> c, w |-> w1, calls |-> <<>>, set |-> NoSet]

----------------------------------------------------------------------------
(* Inputs *)

\* values typed into fps_input or set on fps_slider
FpsInputs == {0, 250, NaN}
\* values typed into exposure_input or dragged on exposure_slider
ExposureInputs == {50, 20010}

----------------------------------------------------------------------------
(* Initial state: VideoPlayer.__init__(fps, camera_id) (gui.py:49-155).    *)
(* The registry is called first (gui.py:55): when it raises, no window is  *)
(* made and the program ends.  main() hands in the mock device (the ximea  *)
(* backend is not importable).                                             *)

\* what the exposure widgets show of the first device: exposure() of a
\* device whose class is not part of the sources is not known
FirstExposure(c) == IF c.kind \in CameraEnum THEN exposure(c) ELSE None

InitWith(camera_id) ==
    /\ selected_camera = camera_id
    /\ registry_call = RegistryCall(camera_id)
    /\ fps = DEFAULT_FPS
    /\ frame_counter = 0
    /\ recording = FALSE
    /\ running = FALSE
    /\ paused = FALSE
    /\ estimating_exposure = FALSE
    /\ exposure_tries = 0
    /\ camera = camera_of(camera_id)
    /\ scene = 0
    /\ exposure_input = FirstExposure(camera_of(camera_id))
    /\ exposure_slider = [value |-> Clamp(FirstExposure(camera_of(camera_id)),
                                          SLIDER_INIT_MIN, SLIDER_INIT_MAX),
                          minimum |-> SLIDER_INIT_MIN, maximum |-> SLIDER_INIT_MAX]
    /\ fps_enabled = TRUE
    /\ exposure_input_enabled = FALSE
    /\ exposure_slider_enabled = FALSE
    /\ ticked = FALSE
    /\ calls = <<>>
    /\ raised = camera_lookup(camera_id).raises
    /\ crashed = camera_lookup(camera_id).raises
    /\ got_frame = FALSE
    /\ set_call = NoSet
    /\ save_name = ""
    /\ est_request = FALSE
    /\ fps_call = NoFps
    /\ checkedWidth = None
    /\ estTicks = 0
    /\ savesInRun = 0
    /\ recording_format = "ENVI"
    /\ filename_stem = DEFAULT_FILENAME_STEM
    /\ record_format_enabled = TRUE
    /\ filename_input_enabled = TRUE
    /\ startSettings = NoSettings

Init == InitWith("mock")

\* a handler that makes no set_exposure call, pulls no frame and saves nothing
NoDeviceData == got_frame' = FALSE /\ set_call' = NoSet /\ save_name' = ""

\* the device calls of the last handler, and of the handler being run
Called(op) == \E i \in DOMAIN calls : calls[i] = op
CalledNext(op) == \E i \in DOMAIN calls' : calls'[i] = op

\* a handler other than toggle_exposure and update_fps
Other == est_request' = FALSE /\ fps_call' = NoFps

\* the search interval of a device
Width(c) == c.exposure_max - c.exposure_min

\* a handler that returns without an exception
Returns == raised' = FALSE /\ crashed' = FALSE

\* a handler that returns at once
NoOp(op) ==
    /\ ticked' = (op = "update_frame")
    /\ calls' = <<>>
    /\ NoDeviceData
    /\ Returns
    /\ UNCHANGED <<session, camera, scene, widgets, enabled, estTicks, savesInRun,
                   recordingSettings, registry_call>>

----------------------------------------------------------------------------
(* The handlers.  Each is a slot of a button, of an input widget or of the *)
(* timer.  A button is always enabled; the slot of an input widget runs    *)
(* only while the widget is enabled (setEnabled), since a disabled widget  *)
(* takes no input.                                                         *)

\* toggle_running (gui.py:157-182).  outcome is what open() does, scenes
\* what the opened device may have in front of it.  An exception nobody
\* catches aborts the process or, with an excepthook installed, leaves the
\* event loop running (crashed).  setup_exposure_slider's update_exposure
\* returns at once, state.running being false, so no property is written.
toggle_running(outcome, scenes) ==
    /\ ~crashed
    /\ UNCHANGED recordingSettings
    /\ registry_call' = IF running THEN registry_call
                                   ELSE RegistryCall(selected_camera)
    /\ Other
    /\ UNCHANGED checkedWidth
    /\ ticked' = FALSE
    /\ got_frame' = FALSE /\ save_name' = ""
    /\ UNCHANGED <<selected_camera, fps, frame_counter, recording,
                   estimating_exposure, exposure_tries, estTicks, savesInRun>>
    /\ IF ~running
       THEN LET c1 == open_of(camera_of(selected_camera), outcome) IN
            IF StartSucceeds(outcome) /\ fps = NaN
            THEN \* setup_exposure_slider's int(min(1_000_000 // nan, ...))
                 \* raises ValueError after the device was opened: nobody
                 \* catches it
                 /\ camera' = c1
                 /\ scene' \in (IF selected_camera = "mock" THEN {0} ELSE scenes)
                 /\ exposure_input' = exposure(c1)
                 /\ fps_enabled' = FALSE
                 /\ exposure_input_enabled' = TRUE
                 /\ exposure_slider_enabled' = TRUE
                 /\ calls' = <<"open">>
                 /\ set_call' = NoSet
                 /\ raised' = TRUE
                 /\ crashed' \in BOOLEAN
                 /\ UNCHANGED <<running, paused, exposure_slider>>
            ELSE IF StartSucceeds(outcome)
            THEN LET e == exposure(c1)
                     r == setup_exposure_slider(running, paused, c1,
                                                setText(W, e), fps, e, "ok")
                 IN  /\ camera' = r.cam
                     /\ scene' \in (IF selected_camera = "mock" THEN {0} ELSE scenes)
                     /\ exposure_input' = r.w.input
                     /\ exposure_slider' = r.w.slider
                     /\ fps_enabled' = FALSE
                     /\ exposure_input_enabled' = TRUE
                     /\ exposure_slider_enabled' = TRUE
                     /\ calls' = <<"open">> \o r.calls
                     /\ set_call' = r.set
                     /\ paused' = FALSE
                     /\ running' = ~running
                     /\ Returns
            ELSE /\ camera' = c1
                 /\ calls' = <<"open">>
                 /\ set_call' = NoSet
                 /\ raised' = ~Catches(c1.kind, outcome)
                 /\ crashed' \in (IF raised' THEN BOOLEAN ELSE {FALSE})
                 /\ UNCHANGED <<running, paused, scene, widgets, enabled>>
       ELSE /\ camera' = close_of(camera)
            /\ fps_enabled' = TRUE
            /\ exposure_input_enabled' = FALSE
            /\ calls' = <<"close">>
            /\ set_call' = NoSet
            /\ paused' = FALSE
            /\ running' = ~running
            /\ Returns
            /\ UNCHANGED <<scene, widgets, exposure_slider_enabled>>

\* toggle_pausing (gui.py:184-188)
toggle_pausing ==
    /\ ~crashed
    /\ UNCHANGED <<recordingSettings, registry_call>>
    /\ Other
    /\ UNCHANGED checkedWidth
    /\ IF PauseIgnored THEN NoOp("toggle_pausing")
       ELSE /\ paused' = ~paused
            /\ ticked' = FALSE
            /\ calls' = <<>>
            /\ NoDeviceData
            /\ Returns
            /\ UNCHANGED <<selected_camera, fps, frame_counter, recording, running,
                           estimating_exposure, exposure_tries, camera, scene,
                           widgets, enabled, estTicks, savesInRun>>

\* toggle_view (gui.py:190-193)
toggle_view ==
    /\ ~crashed
    /\ UNCHANGED <<recordingSettings, registry_call>>
    /\ Other
    /\ UNCHANGED checkedWidth
    /\ IF (~running) \/ paused THEN NoOp("toggle_view")
       ELSE /\ camera' = toggle_view_of(camera)
            /\ ticked' = FALSE
            /\ calls' = <<"toggle_view">>
            /\ NoDeviceData
            /\ Returns
            /\ UNCHANGED <<session, scene, widgets, enabled, estTicks, savesInRun>>

\* toggle_bit_depth (gui.py:195-199)
toggle_bit_depth ==
    /\ ~crashed
    /\ UNCHANGED <<recordingSettings, registry_call>>
    /\ Other
    /\ UNCHANGED checkedWidth
    /\ IF (~running) \/ paused \/ recording THEN NoOp("toggle_bit_depth")
       ELSE /\ camera' = toggle_bit_depth_of(camera)
            /\ ticked' = FALSE
            /\ calls' = <<"toggle_bit_depth">>
            /\ NoDeviceData
            /\ Returns
            /\ UNCHANGED <<session, scene, widgets, enabled, estTicks, savesInRun>>

\* toggle_recording (gui.py:201-217)
toggle_recording ==
    /\ ~crashed
    /\ UNCHANGED registry_call
    /\ Other
    /\ UNCHANGED checkedWidth
    /\ IF (~running) \/ paused THEN NoOp("toggle_recording")
       ELSE /\ recording' = ~recording
            /\ ticked' = FALSE
            /\ NoDeviceData
            /\ Returns
            /\ record_format_enabled' = SettingsEnabled(recording')
            /\ filename_input_enabled' = SettingsEnabled(recording')
            /\ UNCHANGED <<recording_format, filename_stem>>
            /\ IF recording'
               THEN /\ frame_counter' = 0
                    /\ savesInRun' = 0
                    /\ startSettings' = <<recording_format, filename_stem>>
                    /\ camera' = set_save_subfolder(camera, "timestamp")
                    /\ calls' = <<"set_save_subfolder">>
               ELSE /\ calls' = <<>>
                    /\ startSettings' = NoSettings
                    /\ UNCHANGED <<frame_counter, savesInRun, camera>>
            /\ UNCHANGED <<selected_camera, fps, running, paused, scene,
                           estimating_exposure, exposure_tries, widgets, enabled,
                           estTicks>>

\* toggle_exposure (gui.py:219-227)
toggle_exposure ==
    /\ ~crashed
    /\ UNCHANGED <<recordingSettings, registry_call>>
    /\ est_request' = TRUE /\ fps_call' = NoFps
    /\ IF ExposureRequestIgnored THEN NoOp("toggle_exposure")
       ELSE /\ estimating_exposure' = TRUE
            /\ exposure_tries' = 0
            /\ estTicks' = 0
            /\ exposure_input_enabled' = FALSE
            /\ exposure_slider_enabled' = FALSE
            /\ ticked' = FALSE
            /\ NoDeviceData
            /\ IF fps = NaN
               THEN \* int(1_000_000 // nan) raises ValueError: nobody catches it
                    /\ calls' = <<>>
                    /\ raised' = TRUE
                    /\ crashed' \in BOOLEAN
                    /\ UNCHANGED camera
               ELSE /\ camera' = init_exposure(camera, MICROSECONDS \div fps)
                    /\ calls' = <<"init_exposure">>
                    /\ Returns
            /\ UNCHANGED <<selected_camera, fps, frame_counter, recording, running,
                           paused, scene, widgets, fps_enabled, savesInRun>>
    /\ checkedWidth' = IF ExposureRequestIgnored THEN checkedWidth ELSE None

\* set_record_format (gui.py:229-231), the slot of the record_format box:
\* selected_value is the member picked in it
set_record_format(selected_value) ==
    /\ ~crashed
    /\ Other
    /\ record_format_enabled
    /\ recording_format' = selected_value
    /\ ticked' = FALSE
    /\ calls' = <<>>
    /\ NoDeviceData
    /\ Returns
    /\ UNCHANGED <<session, camera, scene, widgets, enabled, estTicks, savesInRun,
                   checkedWidth, filename_stem, record_format_enabled,
                   filename_input_enabled, startSettings, registry_call>>

\* choose_camera (gui.py:233-237)
choose_camera(camera_id) ==
    /\ ~crashed
    /\ UNCHANGED <<recordingSettings, registry_call>>
    /\ Other
    /\ UNCHANGED checkedWidth
    /\ IF running THEN NoOp("choose_camera")
       ELSE /\ selected_camera' = camera_id
            /\ ticked' = FALSE
            /\ calls' = <<>>
            /\ NoDeviceData
            /\ Returns
            /\ UNCHANGED <<fps, frame_counter, recording, running, paused,
                           estimating_exposure, exposure_tries, camera, scene,
                           widgets, enabled, estTicks, savesInRun>>

\* update_fps (gui.py:302-325), the slot of fps_input and fps_slider:
\* fps_val is the number handed in, parses whether float(fps_val) succeeds.
\* Only whole numbers are drawn.
update_fps(fps_val, parses) ==
    /\ ~crashed
    /\ UNCHANGED <<recordingSettings, registry_call>>
    /\ fps_enabled
    /\ est_request' = FALSE
    /\ UNCHANGED checkedWidth
    /\ fps_call' = [made |-> TRUE, arg |-> IF parses THEN fps_val ELSE 0,
                    parses |-> parses]
    /\ ticked' = FALSE
    /\ calls' = <<>>
    /\ NoDeviceData
    /\ UNCHANGED <<selected_camera, frame_counter, recording, running,
                   paused, estimating_exposure, exposure_tries, camera,
                   scene, widgets, enabled, estTicks, savesInRun>>
    /\ IF ~parses
       THEN \* float() raised ValueError; the handler's int(self.state.fps)
            \* raises another one when fps is NaN
            /\ fps' = fps
            /\ raised' = (fps = NaN)
            /\ crashed' \in (IF raised' THEN BOOLEAN ELSE {FALSE})
       ELSE IF fps_val # NaN /\ fps_val <= 0
       THEN fps' = fps /\ Returns
       ELSE /\ fps' = FpsAccepted(fps_val)
            \* int(1_000 // nan) raises ValueError, and so does the handler's
            \* int(self.state.fps)
            /\ raised' = (fps_val = NaN)
            /\ crashed' \in (IF raised' THEN BOOLEAN ELSE {FALSE})

\* update_exposure (gui.py:327-349), the slot of exposure_input and of
\* exposure_slider: exposure_val is the value handed in, parses whether
\* int(exposure_val) succeeds
update_exposure(exposure_val, parses, hw) ==
    /\ ~crashed
    /\ UNCHANGED <<recordingSettings, registry_call>>
    /\ Other
    /\ UNCHANGED checkedWidth
    /\ exposure_input_enabled \/ exposure_slider_enabled
    /\ LET r == update_exposure_result(running, paused, camera, W,
                                       exposure_val, parses, hw)
       IN  /\ camera' = r.cam
           /\ exposure_input' = r.w.input
           /\ exposure_slider' = r.w.slider
           /\ calls' = r.calls
           /\ set_call' = r.set
    /\ ticked' = FALSE
    /\ got_frame' = FALSE /\ save_name' = ""
    /\ Returns
    /\ UNCHANGED <<session, scene, enabled, estTicks, savesInRun>>

\* update_frame (gui.py:264-300), the timer's tick.  delivered is whether
\* get_frame delivers a frame (it raises the device's error otherwise, which
\* the handler catches), hw whether adjust_exposure's property write succeeds.
update_frame(delivered, hw, maxFrames, maxTicks) ==
    /\ ~crashed
    /\ UNCHANGED <<recordingSettings, registry_call>>
    /\ Other
    /\ IF ~TickActive THEN NoOp("update_frame")
       ELSE
        LET est == estimating_exposure
            adj == IF est THEN adjust_exposure(camera, hw)
                          ELSE [cam |-> camera, exc |-> FALSE]
            e == exposure(adj.cam)
            w1 == IF est THEN setValue(setText(W, e), e) ELSE W
            frame == get_frame(adj.cam, scene, delivered)
            save == ShouldSave(recording, frame)
            chk == IF est THEN check_exposure(adj.cam, frame)
                          ELSE [cam |-> adj.cam, ret |-> FALSE, exc |-> FALSE]
            tries1 == exposure_tries + 1
            est1 == IF tries1 >= MAX_TRIES THEN FALSE ELSE ~chk.ret
        IN
        /\ save => frame_counter < maxFrames
        /\ est => estTicks < maxTicks
        /\ ticked' = TRUE
        /\ set_call' = NoSet
        /\ UNCHANGED <<selected_camera, fps, recording, running, paused, scene,
                       fps_enabled>>
        /\ IF adj.exc
           THEN \* adjust_exposure raised the device's error: nobody catches it
                /\ calls' = <<"adjust_exposure">>
                /\ raised' = TRUE
                /\ crashed' \in BOOLEAN
                /\ camera' = adj.cam
                /\ got_frame' = FALSE /\ save_name' = ""
                /\ estTicks' = estTicks + 1
                /\ UNCHANGED <<frame_counter, estimating_exposure, exposure_tries,
                               widgets, savesInRun, exposure_input_enabled,
                               exposure_slider_enabled>>
           ELSE /\ calls' = (IF est THEN <<"adjust_exposure">> ELSE <<>>)
                            \o <<"get_frame">>
                            \o (IF save THEN <<"save_frame">> ELSE <<>>)
                            \o (IF est THEN <<"check_exposure">> ELSE <<>>)
                /\ got_frame' = (frame # None)
                /\ exposure_input' = w1.input
                /\ exposure_slider' = w1.slider
                /\ camera' = chk.cam
                /\ IF save
                   THEN /\ save_name' = Filename(frame_counter)
                        /\ frame_counter' = SavedCounter(frame_counter)
                        /\ savesInRun' = savesInRun + 1
                   ELSE /\ save_name' = ""
                        /\ UNCHANGED <<frame_counter, savesInRun>>
                /\ IF ~est
                   THEN /\ Returns
                        /\ UNCHANGED <<estimating_exposure, exposure_tries, estTicks,
                                       exposure_input_enabled, exposure_slider_enabled>>
                   ELSE IF chk.exc
                   THEN \* check_exposure raised: nobody catches it
                        /\ raised' = TRUE
                        /\ crashed' \in BOOLEAN
                        /\ estTicks' = estTicks + 1
                        /\ UNCHANGED <<estimating_exposure, exposure_tries,
                                       exposure_input_enabled, exposure_slider_enabled>>
                   ELSE /\ Returns
                        /\ estimating_exposure' = est1
                        /\ exposure_tries' = TriesAfter(est1, tries1)
                        /\ estTicks' = IF est1 THEN estTicks + 1 ELSE 0
                        /\ IF est1
                           THEN UNCHANGED <<exposure_input_enabled,
                                            exposure_slider_enabled>>
                           ELSE /\ exposure_input_enabled' = TRUE
                                /\ exposure_slider_enabled' = TRUE
    /\ checkedWidth' = IF CalledNext("check_exposure") /\ ~raised'
                       THEN (IF estimating_exposure' THEN Width(camera') ELSE None)
                       ELSE checkedWidth

----------------------------------------------------------------------------
\* A text that does not parse carries no number, and a hardware outcome is
\* drawn only where the handler reaches the hardware.
Typed(v, parses, inputs) == parses \/ v = CHOOSE x \in inputs : TRUE

\* One step of the program, with the bounds and the inputs of the
\* specification: the devices the user picks and runs, the scenes in front
\* of the device, the values the user enters
Step(maxFrames, maxTicks, cameras, scenes, fpsInputs, exposureInputs, formats) ==
    \/ \E c \in cameras : choose_camera(c)
    \/ \E f \in formats : set_record_format(f)
    \/ \E o \in OpenOutcomes(selected_camera) :
          selected_camera \in cameras /\ toggle_running(o, scenes)
    \/ toggle_pausing
    \/ toggle_view
    \/ toggle_bit_depth
    \/ toggle_recording
    \/ toggle_exposure
    \/ \E v \in fpsInputs, parses \in BOOLEAN :
          Typed(v, parses, fpsInputs) /\ update_fps(v, parses)
    \/ \E v \in exposureInputs, parses \in BOOLEAN, hw \in HwOutcomes(camera.kind) :
          /\ Typed(v, parses, exposureInputs)
          /\ hw = "error" => (parses /\ TickActive)
          /\ update_exposure(v, parses, hw)
    \/ \E delivered \in Delivery(camera.kind), hw \in HwOutcomes(camera.kind) :
          /\ hw = "error" => (TickActive /\ estimating_exposure)
          /\ (~delivered) => (TickActive /\ hw = "ok")
          /\ update_frame(delivered, hw, maxFrames, maxTicks)

Next == Step(MaxFrames, MaxEstTicks, CameraEnum, Scenes, FpsInputs, ExposureInputs,
             {"ENVI"})

Spec == Init /\ [][Next]_vars

\* Long estimation runs on the TIS device: every handler, the frame rate
\* left as it is, and one scene, on which every delivered frame ends the
\* search (the midpoint of the device's whole range is its threshold)
MID_SCENE == (TIS_MIN_EXPOSURE_MS + TIS_MAX_EXPOSURE_MS) \div 2
NextEst == Step(MaxFramesEst, EstTickBound, {"tis"}, {MID_SCENE}, {0}, {20010},
                {"ENVI"})

SpecEst == Init /\ [][NextEst]_vars

\* Long recording runs: every handler, one scene, the frame rate left as
\* it is
NextRec == Step(MaxFramesRec, MaxEstTicks, CameraEnum, {MID_SCENE}, {0}, {20010},
                SaveFormatEnum)

SpecRec == Init /\ [][NextRec]_vars

\* Exposure searches of three and more ticks: every handler on both
\* devices and both scenes, at the highest frame rate
NextSearch == Step(MaxFramesEst, MaxSearchTicks, CameraEnum, Scenes, {250}, {20010},
                   {"ENVI"})

SpecSearch == Init /\ [][NextSearch]_vars

\* Long exposures on the TIS device: every handler, at the lowest frame
\* rate, where the exposure slider reaches a whole second
NextSlow == Step(MaxFramesEst, MaxEstTicks, {"tis"}, {MID_SCENE}, {1}, {100010},
                 {"ENVI"})

SpecSlow == Init /\ [][NextSlow]_vars

\* The registry: the program made with every identifier, one the registry
\* does not know included, and every handler after it
RegistryIds == {"mock", "ximea", "tis", "webcam"}
InitRegistry == \E camera_id \in RegistryIds : InitWith(camera_id)
NextRegistry == Step(MaxFramesEst, MaxEstTicks, CameraEnum, {MID_SCENE}, {0}, {20010},
                     {"ENVI"})

SpecRegistry == InitRegistry /\ [][NextRegistry]_vars

----------------------------------------------------------------------------
(* Properties *)

\* C1: once toggle_exposure has set estimating_exposure, it is false again
\* after at most 50 non-paused ticks of the running session, also when
\* get_frame fails (estTicks counts those ticks of the estimation run).
C1_EstimationEndsWithin50 == estimating_exposure => estTicks < MAX_TRIES

\* C2: a set_exposure(v) that returns, with v <= min or v >= max of
\* exposure_range(), returns false and leaves exposure() unchanged.
C2_OutOfRangeRejected ==
    (/\ set_call.made /\ ~set_call.exc
     /\ \/ set_call.arg <= exposure_range(camera)[1]
        \/ set_call.arg >= exposure_range(camera)[2])
    => (~set_call.ret /\ exposure(camera) = set_call.before)

\* C3: a set_exposure(v) that returns, with min < v < max of
\* exposure_range(), returns true, and afterwards exposure() = v.
C3_InRangeAccepted ==
    (/\ set_call.made /\ ~set_call.exc
     /\ exposure_range(camera)[1] < set_call.arg
     /\ set_call.arg < exposure_range(camera)[2])
    => (set_call.ret /\ exposure(camera) = set_call.arg)

\* C4: stop (toggle_running while running) closes the device and leaves
\* recording and estimating_exposure false.
C4_StopCancels ==
    [][(running /\ ~running')
       => (camera'.status = "closed" /\ ~recording' /\ ~estimating_exposure')]_vars

\* C5: a tick while not running or paused changes no session state and
\* makes no device call and no save call.
C5_IdleTickNoOp ==
    [][(ticked' /\ ((~running) \/ paused))
       => (/\ UNCHANGED <<running, paused, recording, estimating_exposure,
                          frame_counter, exposure_tries, camera, widgets>>
           /\ calls' = <<>>
           /\ save_name' = "")]_vars

C5_Witness == ticked /\ running /\ paused /\ recording /\ estimating_exposure

\* C6: the toggle_recording that turns recording on sets frame_counter to
\* 0, a tick that saves increments it by exactly 1, and no other step
\* changes it.
C6_FrameCounter ==
    [][/\ (~recording /\ recording') => frame_counter' = 0
       /\ (ticked' /\ save_name' # "") => frame_counter' = frame_counter + 1
       /\ (~(~recording /\ recording') /\ ~(ticked' /\ save_name' # ""))
            => frame_counter' = frame_counter]_vars

C6_Witness == recording /\ ticked /\ savesInRun = 2 /\ frame_counter = 2

\* C7: a save call happens only in a tick of a running, unpaused, recording
\* session in which get_frame returned a frame.
C7_SaveOnlyWhenRecording ==
    [][(save_name' # "" \/ CalledNext("save_frame"))
       => (ticked' /\ running /\ ~paused /\ recording /\ got_frame')]_vars

C7_Witness == Called("save_frame") /\ recording /\ camera.kind = "tis"

\* C8: the n-th save call of a recording run uses the name frame_<n-1>,
\* zero-padded to 4 digits.
ExpectedNames ==
    <<"frame_0000", "frame_0001", "frame_0002", "frame_0003", "frame_0004",
      "frame_0005", "frame_0006", "frame_0007", "frame_0008", "frame_0009">>

C8_ConsecutiveNames ==
    save_name # ""
    => (savesInRun \in DOMAIN ExpectedNames /\ save_name = ExpectedNames[savesInRun])

C8_Witness == savesInRun = 5 /\ save_name = "frame_0004"

\* C9: a tick on which get_frame raises makes no save call and no
\* estimation step, does not fail, and keeps the session's flags, the
\* counters and the search interval.
C9_MissedTick ==
    [][(ticked' /\ CalledNext("get_frame") /\ ~got_frame')
       => (/\ ~CalledNext("save_frame")
           /\ ~CalledNext("check_exposure")
           /\ ~raised'
           /\ UNCHANGED <<running, paused, recording, estimating_exposure,
                          frame_counter, exposure_tries>>
           /\ camera'.exposure_min = camera.exposure_min
           /\ camera'.exposure_max = camera.exposure_max)]_vars

\* C10: when open() fails during start, running stays false, the flags and
\* counters are unchanged, and close() is only ever called on a device whose
\* open() succeeded.
C10_FailedOpenStaysStopped ==
    [][/\ (CalledNext("open") /\ camera'.status = "failed")
            => (/\ ~running'
                /\ UNCHANGED <<running, paused, recording, estimating_exposure,
                               frame_counter, exposure_tries>>)
       /\ CalledNext("close") => camera.status = "open"]_vars

C10_Witness ==
    camera.status = "failed" /\ Called("open") /\ ~running /\ recording
\* what exposure() returns when the device's exposure is raw
ExposureAt(c, raw) == exposure([c EXCEPT !.exposure = raw])

\* C11: from the third tick of an estimation run on, the width of the
\* search interval after a check_exposure that does not end the run is at
\* most its width after the previous check_exposure of the run.
C11_WidthNarrows ==
    [][(/\ CalledNext("check_exposure") /\ ~raised'
        /\ estimating_exposure'
        /\ estTicks >= 2 /\ checkedWidth # None)
       => Width(camera') <= checkedWidth]_vars

\* C12: during an estimation run, after init_exposure, adjust_exposure and
\* check_exposure, the device's exposure lies in its search interval.
C12_CurrentWithinInterval ==
    (/\ running /\ estimating_exposure
     /\ Called("init_exposure") \/ Called("adjust_exposure") \/ Called("check_exposure"))
    => (camera.exposure_min <= camera.exposure /\ camera.exposure <= camera.exposure_max)

\* C13: when an estimation run ends, the device's search interval is the
\* device's absolute one again.
C13_BoundsResetAtEnd ==
    [][(estimating_exposure /\ ~estimating_exposure')
       => <<camera'.exposure_min, camera'.exposure_max>> = AbsoluteBounds(camera')]_vars

\* C14: an accepted toggle_exposure sets exposure_tries to 0 and seeds the
\* search interval with the minimum of exposure_range() and with the
\* smaller of the maximum of exposure_range() and 1_000_000 / fps.
C14_SearchSeeded ==
    [][(est_request' /\ ~estimating_exposure /\ estimating_exposure')
       => (/\ exposure_tries' = 0
           /\ CalledNext("init_exposure")
           /\ ExposureAt(camera', camera'.exposure_min) = exposure_range(camera')[1]
           /\ ExposureAt(camera', camera'.exposure_max)
                = Min(exposure_range(camera')[2], MICROSECONDS \div fps))]_vars

\* C15: after an update_exposure that reached the device, exposure_input
\* and exposure_slider show the device's exposure().
C15_PublishedIsActual ==
    set_call.made
    => (exposure_input = exposure(camera) /\ exposure_slider.value = exposure(camera))

\* C16: after a successful set_exposure, exposure() lies within the minimum
\* and the maximum of exposure_range().
C16_ExposureWithinRange ==
    (set_call.made /\ ~set_call.exc /\ set_call.ret)
    => (/\ exposure_range(camera)[1] <= exposure(camera)
        /\ exposure(camera) <= exposure_range(camera)[2])

\* C17: a toggle_exposure while stopped, paused or estimating changes no
\* flag and no counter, and makes no device call.
C17_IgnoredRequest ==
    [][(est_request' /\ ((~running) \/ paused \/ estimating_exposure))
       => (/\ UNCHANGED <<running, paused, recording, estimating_exposure,
                          frame_counter, exposure_tries, camera>>
           /\ calls' = <<>>)]_vars

C17_Witness ==
    /\ est_request /\ running /\ ~paused /\ estimating_exposure
    /\ exposure_tries = 1 /\ Width(camera) < Width(camera_of(camera.kind))

\* C18: update_fps leaves fps as it is when the value is not a number or is
\* not positive, sets it to the value clamped to [1, 100] otherwise, and
\* changes no flag and no counter.
C18_FpsClamped ==
    [][fps_call'.made
       => (/\ fps' = IF (~fps_call'.parses) \/ fps_call'.arg = NaN
                        \/ fps_call'.arg <= 0
                     THEN fps
                     ELSE Clamp(fps_call'.arg, FPS_SLIDER_MIN, FPS_SLIDER_MAX)
           /\ UNCHANGED <<running, paused, recording, estimating_exposure,
                          frame_counter, exposure_tries>>)]_vars

\* C19: open() is never called while the current device is open, close()
\* only on an open device, and running holds exactly when the current
\* device is open.
C19_OpenCloseAlternate ==
    [][/\ CalledNext("open") => camera.status # "open"
       /\ CalledNext("close") => camera.status = "open"
       /\ running' <=> camera'.status = "open"]_vars

\* C20: at every save call the device's save_folder() is a directory.
C20_SaveFolderExists == Called("save_frame") => save_folder(camera) # "None"
\* C21: at every save call of a recording, recording_format and
\* filename_stem are what they were when the recording started.
C21_SettingsLocked ==
    Called("save_frame") => <<recording_format, filename_stem>> = startSettings

C21_Witness ==
    /\ Called("save_frame") /\ recording /\ savesInRun = 2
    /\ recording_format = "OTHER" /\ ~record_format_enabled

\* C22: after init_exposure(33333), every adjust_exposure and
\* check_exposure on a frame without saturated samples that does not end
\* the search raises the search minimum and leaves the search maximum.
C22_MinRises ==
    [][(/\ CalledNext("check_exposure") /\ ~raised'
        /\ MICROSECONDS \div fps = 33333
        /\ saturated(camera', scene') = DARK
        /\ estimating_exposure')
       => (/\ camera'.exposure_min > camera.exposure_min
           /\ camera'.exposure_max = camera.exposure_max)]_vars

\* C23: camera(camera_id) returns a device of the backend camera_id names
\* for mock, ximea and tis, and for every other identifier raises without
\* making a device.
C23_Registry ==
    IF registry_call.id \in {"mock", "ximea", "tis"}
    THEN (~registry_call.raises) /\ registry_call.kind = registry_call.id
         /\ camera.kind = registry_call.id
    ELSE registry_call.raises /\ registry_call.kind = "none" /\ camera = NoDevice

C23_Witness == registry_call.id = "webcam" /\ registry_call.raises /\ crashed

\* the device calls of the handler being run, save_frame left out
SearchCallsNext == SelectSeq(calls', LAMBDA op : op # "save_frame")

\* C24: a tick of the running, not paused session that finds
\* estimating_exposure set calls adjust_exposure, get_frame and
\* check_exposure once each, in this order, and adds one to
\* exposure_tries (which is 0 again when the tick ends the search); a tick
\* that finds it clear calls neither adjust_exposure nor check_exposure.
C24_OneSearchStepPerTick ==
    [][(ticked' /\ TickActive)
       => IF estimating_exposure
          THEN /\ SearchCallsNext = <<"adjust_exposure", "get_frame", "check_exposure">>
               /\ \/ exposure_tries' = exposure_tries + 1
                  \/ (~estimating_exposure') /\ exposure_tries' = 0
          ELSE ~CalledNext("adjust_exposure") /\ ~CalledNext("check_exposure")]_vars

\* C25: adjust_exposure sets the device's exposure to the floor of
\* (min + max) / 2 of the search interval and leaves min and max: seen on
\* every tick on which adjust_exposure returns (get_frame is called after
\* it), the bounds on the ticks on which check_exposure, the only other
\* call that writes them, raises before it does.
C25_AdjustSetsMidpoint ==
    [][(CalledNext("adjust_exposure") /\ CalledNext("get_frame"))
       => (/\ camera'.exposure = (camera.exposure_min + camera.exposure_max) \div 2
           /\ raised' => (/\ camera'.exposure_min = camera.exposure_min
                          /\ camera'.exposure_max = camera.exposure_max))]_vars

C25_Witness ==
    /\ Called("adjust_exposure") /\ Called("check_exposure") /\ raised
    /\ camera.exposure = (camera.exposure_min + camera.exposure_max) \div 2
    /\ camera.exposure # TIS_DEFAULT_EXPOSURE_TIME_MS

C27_PausedOnlyWhileRunning ==
    /\ paused => running
    /\ (Called("open") \/ Called("close")) => ~paused

C27_Witness == paused /\ running /\ ~ticked /\ calls = <<>> /\ ~est_request

\* C28: the device's bit depth does not change while a recording runs.
C28_BitDepthFixedWhileRecording ==
    [][(recording /\ recording') => camera'.bit_depth = camera.bit_depth]_vars

\* C29: right after a start that succeeded, the device's exposure() lies
\* between the minimum of exposure_range() and the smaller of
\* 1_000_000 / fps and the maximum of exposure_range().
C29_StartExposureInRange ==
    (Called("open") /\ running)
    => (/\ exposure_range(camera)[1] <= exposure(camera)
        /\ exposure(camera) <= Min(MICROSECONDS \div fps, exposure_range(camera)[2]))
====
